---- MODULE Spec2Model ----
(***************************************************************************)
(* A model of the SNI-aware RDP forwarder (main.go).                       *)
(*                                                                         *)
(* Spec        one connection: handleConnection with its two copy tasks,   *)
(*             the client peer and the target peer as the environment.     *)
(* SpecFair    the same connection with the scheduling the Go run-time     *)
(*             gives: the handler is not starved, a call on a closed       *)
(*             socket returns; on a narrower choice of client packets.     *)
(* SpecC2S     the same connection in the schedules where only the client  *)
(*             -> server task runs, on a wider choice of client packets.   *)
(* SpecServer  the service's Execute, runServer with its accept task and   *)
(*             the handlers it starts.                                     *)
(* SpecSNI     extractSNI on its own, applied to a family of buffers.      *)
(* SpecRDP     extractRDPClientInfo on its own, likewise.                  *)
(*                                                                         *)
(* Byte buffers are sequences of 0..255; Go's data[i] is d[i + 1] here.    *)
(* A packet is what one successful Read returns.  Packets are named by a   *)
(* kind; Data(kind) is the byte content, and the parsers run on the bytes. *)
(* DEBUG records are not modelled (they change no state of the program).   *)
(***************************************************************************)
EXTENDS Integers, Sequences, FiniteSets, TLC

\* ------------------------------------------------------------------ bounds

\* most packets the client peer delivers on one connection
MaxPackets == 6
\* packets after which the client peer only repeats its last packet
MaxVaried == 2
\* the same, in the runs of the client -> server task on its own
MaxVariedAlone == 4
\* the same, in the runs under fairness
MaxVariedFair == 1
\* most packets the target peer delivers on one connection
MaxResponses == 1
\* most connections the listener accepts
MaxAccepts == 3
\* most failed Accept calls
MaxAcceptErrors == 1
\* most bytes cut from the end of a buffer handed to a parser
MaxCut == 32
\* most Interrogate requests the service receives
MaxInterrogates == 1
\* bytes of the varied stretch of a buffer handed to extractRDPClientInfo
MaxSegment == 8

\* -------------------------------------------------------- program constants

\* len(data) < 43 in extractSNI; also the offset of the session id length
TLSFixedLen == 43
\* len(data) < 20 in extractRDPClientInfo, and the i < len(data)-20 margin
RDPMinLen == 20
\* first offset scanned by extractRDPClientInfo
RDPScanFrom == 10
\* last offset (exclusive) scanned by extractRDPClientInfo
RDPScanLimit == 600
\* j < i+64: at most 32 code units per candidate
RDPRunBytes == 64
\* len(name) > 3
RDPMinName == 3
\* packetNum <= 5 / packetNum > 5: the inspection window
InspectWindow == 5
\* first byte of a TLS handshake record
TLSHandshake == 22
\* handshake type ClientHello
ClientHelloType == 1
\* first byte of a TPKT (RDP negotiation) packet
TPKTVersion == 3

\* make(chan error, 1): the capacity of each outcome channel
ChanCap == 1

\* ------------------------------------------------------------- the parsers

\* binary.BigEndian.Uint16(data[pos:])
U16(d, pos) == d[pos + 1] * 256 + d[pos + 2]

\* the outcomes of a parser: a name or none, with or without an error; a
\* panic is the run-time's answer to an index outside the buffer
Failed == [name |-> <<>>, err |-> TRUE, panic |-> FALSE]
Absent == [name |-> <<>>, err |-> FALSE, panic |-> FALSE]
Found(n) == [name |-> n, err |-> FALSE, panic |-> FALSE]
Panicked == [name |-> <<>>, err |-> FALSE, panic |-> TRUE]

\* the run-time's bounds check of data[pos] (n = 1) and of
\* Uint16(data[pos:]) (n = 2)
CanRead(d, pos, n) == pos >= 0 /\ pos + n <= Len(d)

RECURSIVE ExtensionWalk(_, _, _)
\* the loop over the extensions of extractSNI, entered with cursor pos
ExtensionWalk(d, pos, extensionsEnd) ==
  IF ~(pos + 4 <= extensionsEnd /\ pos + 4 <= Len(d)) THEN Absent
  ELSE IF ~CanRead(d, pos, 2) \/ ~CanRead(d, pos + 2, 2) THEN Panicked
  ELSE LET extType == U16(d, pos)
           extLen  == U16(d, pos + 2)
           p       == pos + 4
       IN IF p + extLen > Len(d) THEN Absent
          ELSE IF extType = 0
            THEN IF extLen < 2 THEN Absent
                 ELSE LET p2 == p + 2
                          e2 == extLen - 2
                      IN IF e2 < 3 THEN Absent
                         ELSE IF ~CanRead(d, p2, 1) THEN Panicked
                         ELSE IF d[p2 + 1] = 0
                           THEN IF ~CanRead(d, p2 + 1, 2) THEN Panicked
                                ELSE
                                LET nameLen == U16(d, p2 + 1)
                                    p4      == p2 + 3
                                IN IF p4 + nameLen <= Len(d)
                                     THEN Found(SubSeq(d, p4 + 1, p4 + nameLen))
                                     ELSE ExtensionWalk(d, p4 + e2, extensionsEnd)
                           ELSE ExtensionWalk(d, p2 + e2, extensionsEnd)
            ELSE ExtensionWalk(d, p + extLen, extensionsEnd)

extractSNI(d) ==
  IF Len(d) < TLSFixedLen THEN Failed
  ELSE IF ~CanRead(d, 0, 1) THEN Panicked
  ELSE IF d[1] # TLSHandshake THEN Failed
  ELSE IF ~CanRead(d, 5, 1) THEN Panicked
  ELSE IF d[6] # ClientHelloType THEN Failed
  ELSE LET pos0 == TLSFixedLen
       IN IF pos0 >= Len(d) THEN Absent
          ELSE IF ~CanRead(d, pos0, 1) THEN Panicked
          ELSE LET pos1 == pos0 + 1 + d[pos0 + 1]
               IN IF pos1 + 2 > Len(d) THEN Absent
                  ELSE IF ~CanRead(d, pos1, 2) THEN Panicked
                  ELSE LET pos2 == pos1 + 2 + U16(d, pos1)
                       IN IF pos2 >= Len(d) THEN Absent
                          ELSE IF ~CanRead(d, pos2, 1) THEN Panicked
                          ELSE LET pos3 == pos2 + 1 + d[pos2 + 1]
                               IN IF pos3 + 2 > Len(d) THEN Absent
                                  ELSE IF ~CanRead(d, pos3, 2) THEN Panicked
                                  ELSE ExtensionWalk(d, pos3 + 2,
                                                     pos3 + 2 + U16(d, pos3))

\* a slip: the high byte of the code unit is not looked at
PrintableUnitLowOnly(d, j) == d[j + 1] >= 32 /\ d[j + 1] <= 126

\* data[j] >= 0x20 && data[j] <= 0x7E && data[j+1] == 0x00
PrintableUnit(d, j) == d[j + 1] >= 32 /\ d[j + 1] <= 126 /\ d[j + 2] = 0

RECURSIVE NameRun(_, _, _)
\* the inner loop of extractRDPClientInfo: the name collected from offset j on
NameRun(d, j, i) ==
  IF ~(j < Len(d) - 1 /\ j < i + RDPRunBytes) THEN <<>>
  ELSE IF d[j + 1] = 0 /\ d[j + 2] = 0 THEN <<>>
  ELSE IF PrintableUnit(d, j) THEN <<d[j + 1]>> \o NameRun(d, j + 2, i)
  ELSE <<>>

\* the outer loop of extractRDPClientInfo, entered with index i: it returns
\* at the first index, in increasing order, whose run is long enough
NameScan(d, i) ==
  LET hits == {m \in i..(Len(d) - RDPMinLen - 1) :
                 /\ m < RDPScanLimit
                 /\ PrintableUnit(d, m)
                 /\ Len(NameRun(d, m, m)) > RDPMinName}
  IN IF hits = {} THEN Failed
     ELSE LET first == CHOOSE m \in hits : \A o \in hits : m <= o
          IN Found(NameRun(d, first, first))

extractRDPClientInfo(d) ==
  IF Len(d) < RDPMinLen THEN Failed
  ELSE IF d[1] # TPKTVersion \/ d[2] # 0 THEN Failed
  ELSE NameScan(d, RDPScanFrom)

\* ------------------------------------------------------------- the packets

Zeros(n) == [i \in 1..n |-> 0]

RECURSIVE Utf16(_)
Utf16(s) == IF s = <<>> THEN <<>> ELSE <<Head(s), 0>> \o Utf16(Tail(s))

\* a TLS ClientHello record whose only extensions are exts
ClientHello(exts) ==
  <<22, 3, 1, 0, 0, 1, 0, 0, 0, 3, 3>> \o Zeros(32)
    \o <<0>> \o <<0, 2, 0, 47>> \o <<1, 0>>
    \o <<0, Len(exts)>> \o exts

\* a server_name extension carrying host name n
SNIExtension(n) ==
  <<0, 0, 0, Len(n) + 5, 0, Len(n) + 3, 0, 0, Len(n)>> \o n

\* an MCS Connect-Initial like packet with client name n at offset 10
ConnectInitial(n) ==
  <<3, 0, 0, 0, 2, 240, 128, 127, 101, 130>> \o Utf16(n) \o Zeros(22)

NameA == <<97>>
NameB == <<98>>
NameWork == <<87, 79, 82, 75>>
NameEvil == <<69, 86, 73, 76>>

Kinds == {"tlsA", "tlsB", "tlsNoSNI", "rdpNeg", "rdpWork", "rdpEvil", "opaque"}

\* the content of each packet kind
Content(k) ==
  CASE k = "tlsA"     -> ClientHello(SNIExtension(NameA))
    [] k = "tlsB"     -> ClientHello(SNIExtension(NameB))
    [] k = "tlsNoSNI" -> ClientHello(<<>>)
    [] k = "rdpNeg"   -> <<3, 0, 0, 19, 14, 224, 0, 0, 0, 0, 0, 1, 0, 8, 0, 3, 0, 0, 0>>
    [] k = "rdpWork"  -> ConnectInitial(NameWork)
    [] k = "rdpEvil"  -> ConnectInitial(NameEvil)
    [] k = "opaque"   -> <<1, 2, 3, 4>>
    [] k = "reply"    -> <<3, 0, 0, 4>>


ClientKinds == Kinds
TargetKinds == {"reply"}

\* the tables below hold one evaluation per packet kind
ContentTable == [k \in ClientKinds \cup TargetKinds |-> Content(k)]
Data(k) == ContentTable[k]

SNITable == [k \in ClientKinds |-> extractSNI(Data(k))]
ClientInfoTable == [k \in ClientKinds |-> extractRDPClientInfo(Data(k))]

\* sni, err := extractSNI(firstPacket), for the packet kind k
SNIOf(k) == SNITable[k]

\* clientName, err := extractRDPClientInfo(buf[:n]), for the packet kind k
ClientInfoOf(k) == ClientInfoTable[k]

\* ---------------------------------------------------------------- the state

VARIABLES
  sniWL,              \* config.SNIWhitelist, the set of its keys
  clientWL,           \* config.ClientWhitelist, the set of its keys
  hpc,                \* position of handleConnection
  targetDialed,       \* net.Dial returned a connection
  clientClosed,       \* number of clientConn.Close() calls
  targetClosed,       \* number of targetConn.Close() calls
  c2sPc,              \* position of the client -> server task
  buf,                \* its buf[:n], as a packet kind
  packetNum,          \* its packetNum
  firstPacket,        \* its firstPacket (the last TLS packet saved)
  rdpNegotiated,
  tlsDetected,
  clientIdentified,
  resultErr,          \* its resultErr
  s2cPc,              \* position of the server -> client task
  s2cBuf,             \* its buf[:n]
  s2cPacketNum,       \* its packetNum
  s2cResultErr,       \* its resultErr
  clientToServerDone, \* chan error, capacity 1
  serverToClientDone, \* chan error, capacity 1
  firstErr,
  log,                \* the INFO, WARN and ERROR records of the connection
  fromClient,         \* packets returned by clientConn.Read, in order
  toTarget,           \* packets accepted by targetConn.Write, in order
  fromTarget,         \* packets returned by targetConn.Read, in order
  toClient,           \* packets accepted by clientConn.Write, in order
  rejectedAt          \* packetNum at which the classifier broke out, or 0

connVars == <<sniWL, clientWL, hpc, targetDialed, clientClosed, targetClosed,
              c2sPc, buf, packetNum, firstPacket, rdpNegotiated, tlsDetected,
              clientIdentified, resultErr, s2cPc, s2cBuf, s2cPacketNum,
              s2cResultErr, clientToServerDone, serverToClientDone, firstErr, log,
              fromClient, toTarget, fromTarget, toClient, rejectedAt>>

VARIABLES
  connID,             \* the counter of runServer
  stopCh,             \* "open", "closed", or "closedTwice" (a panic)
  listener,           \* "open" or "closed"
  acceptPc,           \* position of the accept task: "idle" (not started),
                      \* "accept" or "exited"
  serverPc,           \* position of runServer: "idle" (not started), "wait"
                      \* or "returned"
  handlers,           \* the handleConnection calls started, in accept order
  acceptErrors,       \* failed Accept calls so far
  serverLog,          \* the records runServer and its accept task wrote
  process,            \* "running", or "exited" once main has returned
  executePc,          \* position of the service's Execute
  statuses            \* the statuses Execute has sent on changes, in order

srvVars == <<connID, stopCh, listener, acceptPc, serverPc, handlers,
             acceptErrors, serverLog, process, executePc, statuses>>

VARIABLES
  data,               \* the buffer handed to a parser
  extracted           \* what the parser returned: <<>> before the call

parseVars == <<data, extracted>>

NoPacket == "none"
NilErr == "nil"
ErrSNINotInWhitelist == "ErrSNINotInWhitelist"

Rec(level, msg) == [level |-> level, msg |-> msg]

InitConn ==
  /\ sniWL \in {{}, {NameA}}
  /\ clientWL \in {{}, {NameWork}}
  /\ hpc = "dial"
  /\ targetDialed = FALSE
  /\ clientClosed = 0
  /\ targetClosed = 0
  /\ c2sPc = "idle"
  /\ buf = NoPacket
  /\ packetNum = 0
  /\ firstPacket = NoPacket
  /\ rdpNegotiated = FALSE
  /\ tlsDetected = FALSE
  /\ clientIdentified = FALSE
  /\ resultErr = NilErr
  /\ s2cPc = "idle"
  /\ s2cBuf = NoPacket
  /\ s2cPacketNum = 0
  /\ s2cResultErr = NilErr
  /\ clientToServerDone = <<>>
  /\ serverToClientDone = <<>>
  /\ firstErr = NilErr
  /\ log = <<>>
  /\ fromClient = <<>>
  /\ toTarget = <<>>
  /\ fromTarget = <<>>
  /\ toClient = <<>>
  /\ rejectedAt = 0

\* ------------------------------------------------------- the classification

\* a slip: the len(config.SNIWhitelist) > 0 test is left out
SNIRefusedWhenEmpty(sni) == sni \notin sniWL

\* config.SNIWhitelist non-empty and !config.SNIWhitelist[sni]
SNIRefused(sni) == sniWL # {} /\ sni \notin sniWL

\* config.ClientWhitelist non-empty and !config.ClientWhitelist[clientName]
ClientRefused(name) == clientWL # {} /\ name \notin clientWL

\* a slip: the cutoff breaks out whether or not a whitelist is configured
CutoffReachedAlways(n, identified) == n > InspectWindow /\ ~identified

\* a slip: the cutoff comes one packet late
CutoffReachedLate(n, identified) ==
  /\ n > InspectWindow + 1
  /\ ~identified
  /\ (sniWL # {} \/ clientWL # {})

\* packetNum > 5 && !clientIdentified, with a whitelist configured
CutoffReached(n, identified) ==
  /\ n > InspectWindow
  /\ ~identified
  /\ (sniWL # {} \/ clientWL # {})

\* a slip: a TLS packet seen earlier does not end the plain-RDP inspection
AfterNegotiationAlways(rdp, tls) == rdp

\* rdpNegotiated && !tlsDetected
AfterNegotiation(rdp, tls) == rdp /\ ~tls

\* packetNum >= 2 && packetNum <= 5
InWindow(n) == n >= 2 /\ n <= InspectWindow

\* The body of the read loop between packetNum++ and the Write, for packet
\* kind k read as packet number n with the task's flags rdp, tls, ident:
\* the new flags, the records logged and whether the loop is left (reject).
Inspect(k, n, rdp, tls, ident) ==
  LET d == Data(k)
  IN IF Len(d) > 0 /\ d[1] = TLSHandshake
       THEN LET r   == SNIOf(k)
                got == ~r.err /\ r.name # <<>>
                rej == got /\ SNIRefused(r.name)
            IN [ rdp |-> rdp, tls |-> TRUE, ident |-> (ident \/ got),
                 saved |-> k, reject |-> rej,
                 records |->
                   (IF got THEN <<Rec("INFO", <<"SNI", r.name>>)>> ELSE <<>>)
                   \o (IF rej THEN <<Rec("WARN", "SNINotInWhitelist")>> ELSE <<>>) ]
     ELSE IF n = 1 /\ d[1] = TPKTVersion
       THEN [ rdp |-> TRUE, tls |-> tls, ident |-> ident, saved |-> NoPacket,
              reject |-> FALSE, records |-> <<>> ]
     ELSE IF AfterNegotiation(rdp, tls)
       THEN LET r    == IF InWindow(n) THEN ClientInfoOf(k) ELSE Failed
                got  == InWindow(n) /\ ~r.err /\ r.name # <<>>
                rejN == got /\ ClientRefused(r.name)
                id2  == ident \/ got
                cut  == ~rejN /\ CutoffReached(n, id2)
            IN [ rdp |-> rdp, tls |-> tls, ident |-> id2, saved |-> NoPacket,
                 reject |-> (rejN \/ cut),
                 records |->
                   (IF got THEN <<Rec("INFO", <<"RDPClient", r.name>>)>> ELSE <<>>)
                   \o (IF rejN THEN <<Rec("WARN", "ClientNotInWhitelist")>> ELSE <<>>)
                   \o (IF cut /\ sniWL # {}
                         THEN <<Rec("WARN", "NoTLSUpgrade")>> ELSE <<>>)
                   \o (IF cut /\ sniWL = {}
                         THEN <<Rec("WARN", "ClientNotIdentified")>> ELSE <<>>) ]
     ELSE [ rdp |-> rdp, tls |-> tls, ident |-> ident, saved |-> NoPacket,
            reject |-> FALSE, records |-> <<>> ]

\* ------------------------------------------------- handleConnection: start

\* net.Dial succeeds: both channels are made and both tasks are started
DialOk ==
  /\ hpc = "dial"
  /\ hpc' = "select1"
  /\ targetDialed' = TRUE
  /\ c2sPc' = "read"
  /\ s2cPc' = "read"
  /\ UNCHANGED <<srvVars, parseVars, sniWL, clientWL, clientClosed, targetClosed, buf,
                 packetNum, firstPacket, rdpNegotiated, tlsDetected, clientIdentified,
                 resultErr, s2cBuf, s2cPacketNum, s2cResultErr,
                 clientToServerDone, serverToClientDone, firstErr, log, fromClient, toTarget, fromTarget, toClient,
                 rejectedAt>>

\* a slip: the client socket is left open when the dial fails
DialFailNoClose ==
  /\ hpc = "dial"
  /\ hpc' = "done"
  /\ log' = Append(log, Rec("ERROR", "DialFailed"))
  /\ UNCHANGED <<srvVars, parseVars, sniWL, clientWL, targetDialed, clientClosed,
                 targetClosed, c2sPc, buf, packetNum, firstPacket,
                 rdpNegotiated, tlsDetected, clientIdentified, resultErr,
                 s2cPc, s2cBuf, s2cPacketNum, s2cResultErr, clientToServerDone,
                 serverToClientDone, firstErr, fromClient, toTarget,
                 fromTarget, toClient, rejectedAt>>

\* net.Dial fails: logError, clientConn.Close(), return
DialFail ==
  /\ hpc = "dial"
  /\ hpc' = "done"
  /\ log' = Append(log, Rec("ERROR", "DialFailed"))
  /\ clientClosed' = clientClosed + 1
  /\ UNCHANGED <<srvVars, parseVars, sniWL, clientWL, targetDialed, targetClosed, c2sPc,
                 buf, packetNum, firstPacket, rdpNegotiated, tlsDetected,
                 clientIdentified, resultErr, s2cPc, s2cBuf, s2cPacketNum,
                 s2cResultErr, clientToServerDone, serverToClientDone, firstErr,
                 fromClient, toTarget, fromTarget, toClient, rejectedAt>>

\* ------------------------------------------------ the client -> server task

c2sUnchangedByRead == <<srvVars, parseVars, sniWL, clientWL, hpc, targetDialed, clientClosed,
                        targetClosed, s2cPc, s2cBuf, s2cPacketNum,
                        s2cResultErr, serverToClientDone, firstErr, toTarget, fromTarget,
                        toClient>>

\* the task leaves its loop with resultErr = e and posts it
C2SLeave(e) ==
  /\ resultErr' = e
  /\ c2sPc' = "done"
  /\ clientToServerDone' = Append(clientToServerDone, e)

\* the packets the client peer may deliver next, when it varies its first
\* varied packets
ClientSends(varied) ==
  IF Len(fromClient) < varied THEN ClientKinds
  ELSE {fromClient[Len(fromClient)]}

\* clientConn.Read returns packet k; the packet is inspected
C2SRead(varied) ==
  /\ c2sPc = "read"
  /\ clientClosed = 0
  /\ Len(fromClient) < MaxPackets
  /\ \E k \in ClientSends(varied) :
       LET n == packetNum + 1
           v == Inspect(k, n, rdpNegotiated, tlsDetected, clientIdentified)
       IN /\ fromClient' = Append(fromClient, k)
          /\ packetNum' = n
          /\ buf' = k
          /\ rdpNegotiated' = v.rdp
          /\ tlsDetected' = v.tls
          /\ clientIdentified' = v.ident
          /\ firstPacket' = IF v.saved = NoPacket THEN firstPacket ELSE v.saved
          /\ log' = log \o v.records
          /\ IF v.reject
               THEN /\ C2SLeave(ErrSNINotInWhitelist)
                    /\ rejectedAt' = n
               ELSE /\ c2sPc' = "write"
                    /\ UNCHANGED <<resultErr, clientToServerDone, rejectedAt>>
  /\ UNCHANGED c2sUnchangedByRead

C2SReadPacket == C2SRead(MaxVaried)

C2SReadPacketAlone == C2SRead(MaxVariedAlone)

C2SReadPacketFair == C2SRead(MaxVariedFair)

\* clientConn.Read returns io.EOF: the client peer closed its side
C2SReadEOF ==
  /\ c2sPc = "read"
  /\ clientClosed = 0
  /\ C2SLeave(NilErr)
  /\ UNCHANGED <<buf, packetNum, firstPacket, rdpNegotiated, tlsDetected,
                 clientIdentified, log, fromClient, rejectedAt>>
  /\ UNCHANGED c2sUnchangedByRead

\* clientConn.Read returns another error: the connection was reset by the
\* peer, or the handler has closed clientConn
C2SReadError ==
  /\ c2sPc = "read"
  /\ C2SLeave("ClientReadError")
  /\ UNCHANGED <<buf, packetNum, firstPacket, rdpNegotiated, tlsDetected,
                 clientIdentified, log, fromClient, rejectedAt>>
  /\ UNCHANGED c2sUnchangedByRead

c2sUnchangedByWrite == <<srvVars, parseVars, sniWL, clientWL, hpc, targetDialed, clientClosed,
                         targetClosed, buf, packetNum, firstPacket,
                         rdpNegotiated, tlsDetected, clientIdentified, s2cPc,
                         s2cBuf, s2cPacketNum, s2cResultErr,
                         serverToClientDone, firstErr, log, fromClient, fromTarget, toClient, rejectedAt>>

\* a slip: the copy saved for the SNI extraction is forwarded, not buf[:n]
C2SWrittenSaved == IF firstPacket # NoPacket THEN firstPacket ELSE buf

\* what targetConn.Write(buf[:n]) hands to the target socket
C2SWritten == buf

\* targetConn.Write(buf[:n]) succeeds
C2SWriteOk ==
  /\ c2sPc = "write"
  /\ targetClosed = 0
  /\ toTarget' = Append(toTarget, C2SWritten)
  /\ c2sPc' = "read"
  /\ UNCHANGED <<resultErr, clientToServerDone>>
  /\ UNCHANGED c2sUnchangedByWrite

\* targetConn.Write fails: the target peer reset the connection, or the
\* handler has closed targetConn
C2SWriteError ==
  /\ c2sPc = "write"
  /\ C2SLeave("TargetWriteError")
  /\ UNCHANGED toTarget
  /\ UNCHANGED c2sUnchangedByWrite

\* ------------------------------------------------ the server -> client task

s2cUnchanged == <<srvVars, parseVars, sniWL, clientWL, hpc, targetDialed, clientClosed,
                  targetClosed, c2sPc, buf, packetNum, firstPacket,
                  rdpNegotiated, tlsDetected, clientIdentified, resultErr,
                  clientToServerDone, firstErr, log, fromClient, toTarget,
                  rejectedAt>>

S2CLeave(e) ==
  /\ s2cResultErr' = e
  /\ s2cPc' = "done"
  /\ serverToClientDone' = Append(serverToClientDone, e)

\* targetConn.Read returns a packet
S2CReadPacket ==
  /\ s2cPc = "read"
  /\ targetClosed = 0
  /\ Len(fromTarget) < MaxResponses
  /\ \E k \in TargetKinds :
       /\ fromTarget' = Append(fromTarget, k)
       /\ s2cBuf' = k
  /\ s2cPacketNum' = s2cPacketNum + 1
  /\ s2cPc' = "write"
  /\ UNCHANGED <<s2cResultErr, serverToClientDone, toClient>>
  /\ UNCHANGED s2cUnchanged

\* targetConn.Read returns io.EOF
S2CReadEOF ==
  /\ s2cPc = "read"
  /\ targetClosed = 0
  /\ S2CLeave(NilErr)
  /\ UNCHANGED <<s2cBuf, s2cPacketNum, fromTarget, toClient>>
  /\ UNCHANGED s2cUnchanged

\* targetConn.Read returns another error
S2CReadError ==
  /\ s2cPc = "read"
  /\ S2CLeave("TargetReadError")
  /\ UNCHANGED <<s2cBuf, s2cPacketNum, fromTarget, toClient>>
  /\ UNCHANGED s2cUnchanged

\* what clientConn.Write(buf[:n]) hands to the client socket
S2CWritten == s2cBuf

\* clientConn.Write(buf[:n]) succeeds
S2CWriteOk ==
  /\ s2cPc = "write"
  /\ clientClosed = 0
  /\ toClient' = Append(toClient, S2CWritten)
  /\ s2cPc' = "read"
  /\ UNCHANGED <<s2cBuf, s2cPacketNum, s2cResultErr, fromTarget,
                 serverToClientDone>>
  /\ UNCHANGED s2cUnchanged

\* clientConn.Write fails
S2CWriteError ==
  /\ s2cPc = "write"
  /\ S2CLeave("ClientWriteError")
  /\ UNCHANGED <<s2cBuf, s2cPacketNum, fromTarget, toClient>>
  /\ UNCHANGED s2cUnchanged

\* ---------------------------------------------- handleConnection: teardown

hUnchanged == <<srvVars, parseVars, sniWL, clientWL, targetDialed, c2sPc, buf, packetNum,
                firstPacket, rdpNegotiated, tlsDetected, clientIdentified,
                resultErr, s2cPc, s2cBuf, s2cPacketNum, s2cResultErr, fromClient, toTarget, fromTarget,
                toClient, rejectedAt>>

\* the first select: one of the two channels delivers firstErr
WaitFirst ==
  /\ hpc = "select1"
  /\ \/ /\ clientToServerDone # <<>>
        /\ firstErr' = Head(clientToServerDone)
        /\ clientToServerDone' = Tail(clientToServerDone)
        /\ UNCHANGED serverToClientDone
     \/ /\ serverToClientDone # <<>>
        /\ firstErr' = Head(serverToClientDone)
        /\ serverToClientDone' = Tail(serverToClientDone)
        /\ UNCHANGED clientToServerDone
  /\ hpc' = "close"
  /\ UNCHANGED <<clientClosed, targetClosed, log>>
  /\ UNCHANGED hUnchanged

\* a slip: only the target socket is closed
CloseTargetOnly ==
  /\ hpc = "close"
  /\ targetClosed' = targetClosed + 1
  /\ hpc' = "select2"
  /\ UNCHANGED <<clientClosed, clientToServerDone, serverToClientDone, firstErr,
                 log>>
  /\ UNCHANGED <<srvVars, parseVars, sniWL, clientWL, targetDialed, c2sPc, buf, packetNum,
                 firstPacket, rdpNegotiated, tlsDetected, clientIdentified,
                 resultErr, s2cPc, s2cBuf, s2cPacketNum, s2cResultErr,
                 fromClient, toTarget, fromTarget, toClient, rejectedAt>>

\* a slip: no latch, and a deferred call closes both sockets again
CloseBothTwice ==
  /\ hpc = "close"
  /\ clientClosed' = clientClosed + 2
  /\ targetClosed' = targetClosed + 2
  /\ hpc' = "select2"
  /\ UNCHANGED <<clientToServerDone, serverToClientDone, firstErr, log>>
  /\ UNCHANGED hUnchanged

\* closeOnce.Do: clientConn.Close(), targetConn.Close()
CloseBoth ==
  /\ hpc = "close"
  /\ clientClosed' = clientClosed + 1
  /\ targetClosed' = targetClosed + 1
  /\ hpc' = "select2"
  /\ UNCHANGED <<clientToServerDone, serverToClientDone, firstErr, log>>
  /\ UNCHANGED hUnchanged

\* a slip: the handler goes on without the second select
WaitSecondNoJoin ==
  /\ hpc = "select2"
  /\ hpc' = "report"
  /\ UNCHANGED <<clientClosed, targetClosed, clientToServerDone,
                 serverToClientDone, firstErr, log>>
  /\ UNCHANGED hUnchanged

\* the second select: the other outcome is received and dropped
WaitSecond ==
  /\ hpc = "select2"
  /\ \/ /\ clientToServerDone # <<>>
        /\ clientToServerDone' = Tail(clientToServerDone)
        /\ UNCHANGED serverToClientDone
     \/ /\ serverToClientDone # <<>>
        /\ serverToClientDone' = Tail(serverToClientDone)
        /\ UNCHANGED clientToServerDone
  /\ hpc' = "report"
  /\ UNCHANGED <<clientClosed, targetClosed, firstErr, log>>
  /\ UNCHANGED hUnchanged

\* a slip: the sentinel is not excluded
ReportableSentinel(e) == e # NilErr

\* firstErr != nil && !errors.Is(firstErr, ErrSNINotInWhitelist)
Reportable(e) == e # NilErr /\ e # ErrSNINotInWhitelist

\* the final logError, then return
Report ==
  /\ hpc = "report"
  /\ log' = IF Reportable(firstErr)
              THEN Append(log, Rec("ERROR", firstErr)) ELSE log
  /\ hpc' = "done"
  /\ UNCHANGED <<clientClosed, targetClosed, clientToServerDone,
                 serverToClientDone, firstErr>>
  /\ UNCHANGED hUnchanged

NextConn ==
  \/ DialOk \/ DialFail
  \/ C2SReadPacket \/ C2SReadEOF \/ C2SReadError
  \/ C2SWriteOk \/ C2SWriteError
  \/ S2CReadPacket \/ S2CReadEOF \/ S2CReadError
  \/ S2CWriteOk \/ S2CWriteError
  \/ WaitFirst \/ CloseBoth \/ WaitSecond \/ Report

\* the steps of the client -> server task once the dial has succeeded: the
\* other task and the handler take no step.  What they can do to this task,
\* closing a socket under it, it sees as a failed Read or Write, and those
\* can happen at any time here too (C2SReadError, C2SWriteError).
NextC2S ==
  \/ DialOk
  \/ C2SReadPacketAlone \/ C2SReadEOF \/ C2SReadError
  \/ C2SWriteOk \/ C2SWriteError

\* ---------------------------------------------------------------- runServer

\* the service when Execute is entered: runServer is not started yet
InitServer ==
  /\ connID = 0
  /\ stopCh = "open"
  /\ listener = "open"
  /\ acceptPc = "idle"
  /\ serverPc = "idle"
  /\ handlers = <<>>
  /\ acceptErrors = 0
  /\ serverLog = <<>>
  /\ process = "running"
  /\ executePc = "start"
  /\ statuses = <<>>

\* changes <- StartPending, s.stopCh = make(...), go runServer: the server
\* listens, sets connID to 0 and starts its accept task
ExecuteStart ==
  /\ process = "running"
  /\ executePc = "start"
  /\ statuses' = Append(statuses, "StartPending")
  /\ executePc' = "report"
  /\ acceptPc' = "accept"
  /\ serverPc' = "wait"
  /\ UNCHANGED <<connID, stopCh, listener, handlers, acceptErrors, serverLog,
                 process>>
  /\ UNCHANGED <<connVars, parseVars>>

\* changes <- Running
ExecuteRunning ==
  /\ process = "running"
  /\ executePc = "report"
  /\ statuses' = Append(statuses, "Running")
  /\ executePc' = "loop"
  /\ UNCHANGED <<connID, stopCh, listener, acceptPc, serverPc, handlers,
                 acceptErrors, serverLog, process>>
  /\ UNCHANGED <<connVars, parseVars>>

\* an Interrogate request: changes <- c.CurrentStatus, the status the
\* service control manager holds, which is the last one sent
Interrogate ==
  /\ process = "running"
  /\ executePc = "loop"
  /\ Len(statuses) < 2 + MaxInterrogates
  /\ statuses' = Append(statuses, statuses[Len(statuses)])
  /\ UNCHANGED <<connID, stopCh, listener, acceptPc, serverPc, handlers,
                 acceptErrors, serverLog, process, executePc>>
  /\ UNCHANGED <<connVars, parseVars>>

\* the connID handleConnection is called with: the value of the counter at
\* the go statement
HandlerArg == connID + 1

\* listener.Accept() returns a connection: connID++, go handleConnection
AcceptOk ==
  /\ process = "running"
  /\ acceptPc = "accept"
  /\ listener = "open"
  /\ Len(handlers) < MaxAccepts
  /\ connID' = connID + 1
  /\ handlers' = Append(handlers, [arg |-> HandlerArg, pc |-> "started", id |-> 0])
  /\ UNCHANGED <<stopCh, listener, acceptPc, serverPc, acceptErrors, serverLog,
                 process, executePc, statuses>>
  /\ UNCHANGED <<connVars, parseVars>>

\* a slip: the failed Accept is logged and retried without a look at stopCh
AcceptErrorNoSelect ==
  /\ process = "running"
  /\ acceptPc = "accept"
  /\ acceptErrors < MaxAcceptErrors
  /\ acceptErrors' = acceptErrors + 1
  /\ serverLog' = Append(serverLog, Rec("ERROR", "AcceptFailed"))
  /\ UNCHANGED <<connID, stopCh, listener, acceptPc, serverPc, handlers,
                 process, executePc, statuses>>
  /\ UNCHANGED <<connVars, parseVars>>

\* listener.Accept() returns an error (always so once the listener is
\* closed): the task returns if stopCh is closed, else logs and continues
AcceptError ==
  /\ process = "running"
  /\ acceptPc = "accept"
  /\ listener = "closed" \/ acceptErrors < MaxAcceptErrors
  /\ acceptErrors' = IF listener = "closed" THEN acceptErrors ELSE acceptErrors + 1
  /\ IF stopCh = "closed"
       THEN /\ acceptPc' = "exited"
            /\ UNCHANGED serverLog
       ELSE /\ serverLog' = Append(serverLog, Rec("ERROR", "AcceptFailed"))
            /\ UNCHANGED acceptPc
  /\ UNCHANGED <<connID, stopCh, listener, serverPc, handlers, process,
                 executePc, statuses>>
  /\ UNCHANGED <<connVars, parseVars>>

\* a Stop or Shutdown request: changes <- StopPending, close(s.stopCh),
\* break loop
SignalStop ==
  /\ process = "running"
  /\ executePc = "loop"
  /\ statuses' = Append(statuses, "StopPending")
  /\ stopCh' = IF stopCh = "open" THEN "closed" ELSE "closedTwice"
  /\ executePc' = "stopped"
  /\ UNCHANGED <<connID, listener, acceptPc, serverPc, handlers, acceptErrors,
                 serverLog, process>>
  /\ UNCHANGED <<connVars, parseVars>>

\* <-stopCh in runServer, its last record, and the deferred listener.Close()
ServerReturn ==
  /\ process = "running"
  /\ serverPc = "wait"
  /\ stopCh = "closed"
  /\ serverPc' = "returned"
  /\ listener' = "closed"
  /\ serverLog' = Append(serverLog, Rec("INFO", "Stopping"))
  /\ UNCHANGED <<connID, stopCh, acceptPc, handlers, acceptErrors, process,
                 executePc, statuses>>
  /\ UNCHANGED <<connVars, parseVars>>

\* changes <- Stopped, and Execute returns
ExecuteReturn ==
  /\ process = "running"
  /\ executePc = "stopped"
  /\ statuses' = Append(statuses, "Stopped")
  /\ executePc' = "returned"
  /\ UNCHANGED <<connID, stopCh, listener, acceptPc, serverPc, handlers,
                 acceptErrors, serverLog, process>>
  /\ UNCHANGED <<connVars, parseVars>>

\* Execute has returned; svc.Run and runAsService return, and main returns:
\* the process exits, whatever its goroutines are doing
ProcessExit ==
  /\ process = "running"
  /\ executePc = "returned"
  /\ process' = "exited"
  /\ handlers' = [i \in 1..Len(handlers) |->
                    IF handlers[i].pc \in {"started", "running"}
                      THEN [handlers[i] EXCEPT !.pc = "killed"]
                      ELSE handlers[i]]
  /\ UNCHANGED <<connID, stopCh, listener, acceptPc, serverPc, acceptErrors,
                 serverLog, executePc, statuses>>
  /\ UNCHANGED <<connVars, parseVars>>

\* a slip: the handler reads the shared counter instead of its parameter
HandlerConnIDShared(i) == connID

\* the connID a handler stores in its Connection: its parameter
HandlerConnID(i) == handlers[i].arg

\* NewConnection(config, connID, ...) at the head of handleConnection
HandlerBegin(i) ==
  /\ process = "running"
  /\ handlers[i].pc = "started"
  /\ handlers' = [handlers EXCEPT ![i].pc = "running", ![i].id = HandlerConnID(i)]
  /\ UNCHANGED <<connID, stopCh, listener, acceptPc, serverPc, acceptErrors,
                 serverLog, process, executePc, statuses>>
  /\ UNCHANGED <<connVars, parseVars>>

\* handleConnection returns
HandlerEnd(i) ==
  /\ process = "running"
  /\ handlers[i].pc = "running"
  /\ handlers' = [handlers EXCEPT ![i].pc = "done"]
  /\ UNCHANGED <<connID, stopCh, listener, acceptPc, serverPc, acceptErrors,
                 serverLog, process, executePc, statuses>>
  /\ UNCHANGED <<connVars, parseVars>>

NextServer ==
  \/ ExecuteStart \/ ExecuteRunning \/ Interrogate \/ SignalStop
  \/ ExecuteReturn \/ ProcessExit
  \/ AcceptOk \/ AcceptError \/ ServerReturn
  \/ \E i \in 1..Len(handlers) : HandlerBegin(i)
  \/ \E i \in 1..Len(handlers) : HandlerEnd(i)

\* --------------------------------------------------------------- extractSNI

\* no buffer is handed to the parser
NoParse ==
  /\ data = <<>>
  /\ extracted = <<>>

\* a server_name extension whose name length runs past the buffer
LongNameExtension == <<0, 0, 0, 5, 0, 3, 0, 255, 255>>

\* a supported_groups extension
GroupsExtension == <<0, 10, 0, 4, 0, 2, 0, 23>>

\* the ClientHello records the buffers are made from
Hellos ==
  { ClientHello(SNIExtension(NameA)),
    ClientHello(GroupsExtension \o SNIExtension(NameB)),
    ClientHello(LongNameExtension \o <<0, 16, 0>> \o SNIExtension(NameB)) }

\* the values a byte of a record is replaced with
ByteChoices == {0, 1, 2, 22, 255}

\* record h with at most one byte replaced
Replaced(h) ==
  {h} \cup {[h EXCEPT ![i] = v] : i \in 1..Len(h), v \in ByteChoices}

\* buffer b cut short by at most MaxCut bytes
Cuts(b) ==
  {SubSeq(b, 1, Len(b) - c) : c \in 0..(IF MaxCut < Len(b) THEN MaxCut ELSE Len(b))}

\* the buffers made from the records hs
Buffers(hs) == UNION {Cuts(b) : b \in UNION {Replaced(h) : h \in hs}}

\* sni, err := extractSNI(firstPacket)
ParseSNI ==
  /\ extracted = <<>>
  /\ extracted' = <<extractSNI(data)>>
  /\ UNCHANGED <<data, connVars, srvVars>>

NextSNI == ParseSNI

\* ----------------------------------------------------- extractRDPClientInfo

\* the first two bytes of a packet that is not 0x16-led
PacketHeads == {<<3, 0>>, <<3, 1>>, <<4, 0>>}

\* the values of a byte of the varied stretch: NUL, 'A', DEL
SegmentBytes == {0, 65, 127}

\* the zero bytes that follow the varied stretch
Paddings == {0, 12, 20}

\* the byte strings of length n
Segments(n) == [1..n -> SegmentBytes]

\* a packet head, zeros up to offset RDPScanFrom, a varied stretch of n
\* bytes, zeros
ShortBuffers(n) ==
  {h \o Zeros(RDPScanFrom - 2) \o g \o Zeros(z) :
     h \in PacketHeads, g \in Segments(n), z \in Paddings}

\* a TPKT packet with a run of 'A' code units of every length up to
\* RDPRunBytes \div 2 + 2 at offset RDPScanFrom
LongRunBuffers ==
  {<<3, 0>> \o Zeros(RDPScanFrom - 2) \o Utf16([i \in 1..n |-> 65]) \o Zeros(24) :
     n \in 1..(RDPRunBytes \div 2 + 2)}

\* a TPKT packet with the name "work" at an offset around RDPScanLimit
FarBuffers ==
  {<<3, 0>> \o Zeros(o - 2) \o Utf16(NameWork) \o Zeros(24) :
     o \in (RDPScanLimit - 3)..(RDPScanLimit + 1)}

\* what ends a run of code units: a NUL unit, a unit that is not printable,
\* a unit with a high byte, a single byte
RunBreaks == {<<0, 0>>, <<127, 0>>, <<65, 1>>, <<0>>}

\* a TPKT packet with a run of three 'A' code units at offset RDPScanFrom
\* and, after a break, the name "work"
BrokenRunBuffers ==
  {<<3, 0>> \o Zeros(RDPScanFrom - 2) \o Utf16(<<65, 65, 65>>) \o b
     \o Utf16(NameWork) \o Zeros(24) : b \in RunBreaks}

\* the buffers handed to extractRDPClientInfo
ClientInfoBuffers(n) ==
  ShortBuffers(n) \cup LongRunBuffers \cup FarBuffers \cup BrokenRunBuffers

\* clientName, err := extractRDPClientInfo(buf[:n])
ParseClientInfo ==
  /\ extracted = <<>>
  /\ extracted' = <<extractRDPClientInfo(data)>>
  /\ UNCHANGED <<data, connVars, srvVars>>

NextRDP == ParseClientInfo

\* ------------------------------------------------------- the specifications

vars == <<connVars, srvVars, parseVars>>

\* one connection, under a server that does nothing else
Init == InitConn /\ InitServer /\ NoParse
Next == NextConn
Spec == Init /\ [][Next]_vars

\* the handler goroutine is scheduled whenever it can take a step; a Read or
\* a Write on a socket that was closed returns (with an error).  Nothing is
\* assumed of the peers.
Fairness ==
  /\ WF_vars(WaitFirst)
  /\ WF_vars(CloseBoth)
  /\ WF_vars(WaitSecond)
  /\ WF_vars(Report)
  /\ WF_vars(C2SReadError /\ clientClosed > 0)
  /\ WF_vars(C2SWriteError /\ targetClosed > 0)
  /\ WF_vars(S2CReadError /\ targetClosed > 0)
  /\ WF_vars(S2CWriteError /\ clientClosed > 0)

NextFair ==
  \/ DialOk \/ DialFail
  \/ C2SReadPacketFair \/ C2SReadEOF \/ C2SReadError
  \/ C2SWriteOk \/ C2SWriteError
  \/ S2CReadPacket \/ S2CReadEOF \/ S2CReadError
  \/ S2CWriteOk \/ S2CWriteError
  \/ WaitFirst \/ CloseBoth \/ WaitSecond \/ Report

SpecFair == Init /\ [][NextFair]_vars /\ Fairness

\* the client -> server task on its own
SpecC2S == Init /\ [][NextC2S]_vars

\* no connection handled in detail
IdleConn ==
  /\ InitConn
  /\ sniWL = {}
  /\ clientWL = {}

\* the accept task and the handlers it starts
InitS == InitServer /\ IdleConn /\ NoParse

\* one buffer is handed to the parser
InitSNI ==
  /\ InitServer
  /\ IdleConn
  /\ data \in Buffers(Hellos)
  /\ extracted = <<>>
SpecServer == InitS /\ [][NextServer]_vars

\* extractSNI applied to one buffer
SpecSNI == InitSNI /\ [][NextSNI]_vars

\* one buffer is handed to the client-name heuristic
InitRDP ==
  /\ InitServer
  /\ IdleConn
  /\ data \in ClientInfoBuffers(MaxSegment)
  /\ extracted = <<>>

\* extractRDPClientInfo applied to one buffer
SpecRDP == InitRDP /\ [][NextRDP]_vars

\* ----------------------------------------------------- reading the histories

RECURSIVE Bytes(_)
\* the byte stream made of the packets ps
Bytes(ps) == IF ps = <<>> THEN <<>> ELSE Data(Head(ps)) \o Bytes(Tail(ps))

IsPrefix(a, b) == Len(a) <= Len(b) /\ SubSeq(b, 1, Len(a)) = a

Records == {log[i] : i \in 1..Len(log)}

\* ------------------------------------------------------------------ claims

\* C1: when the client -> server task rejects on its k-th packet, the bytes
\* written to the target are exactly those of client packets 1..k-1, in
\* order, and stay so: nothing of packet k or of later data reaches the target.
C1_RejectedPrefix ==
  rejectedAt # 0 =>
    /\ Len(fromClient) = rejectedAt
    /\ Bytes(toTarget) = Bytes(SubSeq(fromClient, 1, rejectedAt - 1))
    /\ c2sPc = "done"

\* a rejection on the third packet, after two packets went to the target
C1_Witness ==
  /\ rejectedAt = 3
  /\ Len(toTarget) = 2
  /\ c2sPc = "done"

\* C8: at every point the bytes written to the target are a prefix of the
\* bytes read from the client, and the bytes written to the client a prefix
\* of the bytes read from the target.
C8_WrittenPrefixOfRead ==
  /\ IsPrefix(Bytes(toTarget), Bytes(fromClient))
  /\ IsPrefix(Bytes(toClient), Bytes(fromTarget))

\* both directions have forwarded, and a client packet is still unwritten
C8_Witness ==
  /\ Len(toTarget) >= 2
  /\ Len(toTarget) < Len(fromClient)
  /\ toTarget[1] # toTarget[2]
  /\ toClient # <<>>

\* the packet kind k begins with byte b
LedBy(k, b) == Len(Data(k)) > 0 /\ Data(k)[1] = b

\* extractSNI yields a non-empty name from packet kind k
CarriesSNI(k) ==
  LedBy(k, TLSHandshake) /\ ~extractSNI(Data(k)).err /\ extractSNI(Data(k)).name # <<>>

\* the heuristic yields a non-empty name from packet kind k
CarriesClientName(k) ==
  ~extractRDPClientInfo(Data(k)).err /\ extractRDPClientInfo(Data(k)).name # <<>>

SNITableOK == [k \in ClientKinds |-> CarriesSNI(k)]
ClientNameTableOK == [k \in ClientKinds |-> CarriesClientName(k)]

\* the p-th client packet was passed on by the classifier: it is on the target
\* socket, or it is the packet the task is writing, or its Write failed
PassedOn(p) ==
  \/ p <= Len(toTarget) /\ toTarget[p] = fromClient[p]
  \/ /\ p = Len(fromClient)
     /\ Len(toTarget) = p - 1
     /\ \/ c2sPc = "write" /\ buf = fromClient[p]
        \/ c2sPc = "done" /\ resultErr = "TargetWriteError"

\* C2: a 0x16-led packet from which extractSNI yields a non-empty name is
\* refused when sni_whitelist is non-empty and lacks the name: the task
\* rejects at that packet, the WARN is logged and nothing of the packet is
\* written to the target.  When the name is a member, or sni_whitelist is
\* empty, the packet is passed on to the target Write and the client counts
\* as identified.
C2_SNIDecision ==
  \A p \in 1..Len(fromClient) :
    SNITableOK[fromClient[p]] =>
      IF sniWL # {} /\ SNITable[fromClient[p]].name \notin sniWL
        THEN /\ rejectedAt = p
             /\ Rec("WARN", "SNINotInWhitelist") \in Records
             /\ toTarget = SubSeq(fromClient, 1, p - 1)
        ELSE /\ rejectedAt # p
             /\ clientIdentified
             /\ PassedOn(p)

\* a first ClientHello was accepted and forwarded, a second one was refused
C2_Witness ==
  /\ rejectedAt = 2
  /\ Rec("WARN", "SNINotInWhitelist") \in Records
  /\ SNITableOK[fromClient[1]]
  /\ toTarget = <<fromClient[1]>>

\* C3 as stated: once the classifier has rejected, no byte is written to
\* either socket any more.
C3_NoWriteAfterReject ==
  [][rejectedAt # 0 => toTarget' = toTarget /\ toClient' = toClient]_vars

\* C3 amended: once the classifier has rejected, no byte is written to the
\* target any more; and once the handler has closed both sockets, no byte is
\* written to either socket.  (Between the rejection and the close the
\* server -> client task can still write to the client.)
C3_NoWriteAfterClose ==
  [][ /\ rejectedAt # 0 => toTarget' = toTarget
      /\ hpc \in {"select2", "report", "done"} =>
           toTarget' = toTarget /\ toClient' = toClient ]_vars

\* a rejected connection was torn down while the server -> client task held
\* a packet it had read: its Write failed
C3_Witness ==
  /\ rejectedAt # 0
  /\ hpc = "done"
  /\ fromTarget # <<>>
  /\ toClient = <<>>
  /\ s2cResultErr = "ClientWriteError"

\* C4 as stated: with sni_whitelist non-empty, a connection whose first
\* packet is 0x03-led and that never sends a 0x16-led packet is rejected by
\* the classifier once it has sent more than InspectWindow packets.
C4_PlainRDPCutOff ==
  ( /\ sniWL # {}
    /\ Len(fromClient) > InspectWindow
    /\ LedBy(fromClient[1], TPKTVersion)
    /\ \A p \in 1..Len(fromClient) : ~LedBy(fromClient[p], TLSHandshake) )
  => rejectedAt # 0

\* the p-th client packet is one C5 speaks of: the first packet was 0x03-led,
\* no 0x16-led packet was seen up to p, p is in 2..5 and the heuristic
\* yields a name from it
NamedInWindow(p) ==
  /\ p \in 2..InspectWindow
  /\ p <= Len(fromClient)
  /\ LedBy(fromClient[1], TPKTVersion)
  /\ \A q \in 1..p : ~LedBy(fromClient[q], TLSHandshake)
  /\ ClientNameTableOK[fromClient[p]]

\* C5 as stated: such a packet is refused when client_whitelist is non-empty
\* and lacks the name (rejected at that packet, packet not forwarded);
\* otherwise the connection is admitted: the classifier rejects neither at
\* that packet nor at any later one.
C5_ClientDecision ==
  \A p \in 1..Len(fromClient) :
    NamedInWindow(p) =>
      IF clientWL # {} /\ ClientInfoTable[fromClient[p]].name \notin clientWL
        THEN rejectedAt = p /\ toTarget = SubSeq(fromClient, 1, p - 1)
        ELSE rejectedAt = 0

\* C6: with both whitelists empty the classifier never rejects: no WARN is
\* logged, the task's outcome is not the rejection sentinel, and every packet
\* read from the client is passed on to the target Write.
C6_OpenForwarder ==
  (sniWL = {} /\ clientWL = {}) =>
    /\ rejectedAt = 0
    /\ \A r \in Records : r.level # "WARN"
    /\ resultErr # ErrSNINotInWhitelist
    /\ \A p \in 1..Len(fromClient) : PassedOn(p)

\* with no whitelist, a negotiated plain RDP connection that was never
\* identified has more than InspectWindow packets on the target
C6_Witness ==
  /\ sniWL = {}
  /\ clientWL = {}
  /\ Len(toTarget) > InspectWindow
  /\ rdpNegotiated
  /\ ~tlsDetected
  /\ ~clientIdentified

\* C7 as stated: when a connection the classifier never rejects has
\* terminated, the bytes written to the target equal the bytes read from the
\* client, and the bytes written to the client equal those read from the target.
C7_AllReadWritten ==
  (hpc = "done" /\ rejectedAt = 0) =>
    /\ Bytes(toTarget) = Bytes(fromClient)
    /\ Bytes(toClient) = Bytes(fromTarget)

\* all but the last of ps
AllButLast(ps) == IF ps = <<>> THEN <<>> ELSE SubSeq(ps, 1, Len(ps) - 1)

\* C7 amended: when such a connection has terminated, the bytes written to
\* the target are the bytes read from the client, or those bytes without the
\* last packet read; and likewise for the bytes written to the client.
C7_AllButLastWritten ==
  (hpc = "done" /\ rejectedAt = 0) =>
    /\ Bytes(toTarget) \in {Bytes(fromClient), Bytes(AllButLast(fromClient))}
    /\ Bytes(toClient) \in {Bytes(fromTarget), Bytes(AllButLast(fromTarget))}

\* a connection that was never rejected ended with the last client packet
\* read but not written, the other direction complete
C7_Witness ==
  /\ hpc = "done"
  /\ rejectedAt = 0
  /\ Len(fromClient) >= 2
  /\ Len(toTarget) = Len(fromClient) - 1
  /\ fromTarget # <<>>
  /\ toClient = fromTarget

\* C9: nothing is read from the client or forwarded, and no copy task runs,
\* before the dial has succeeded; when the dial fails the handler logs one
\* ERROR, closes the client socket once, and returns.
C9_DialFirst ==
  ~targetDialed =>
    /\ hpc \in {"dial", "done"}
    /\ c2sPc = "idle" /\ s2cPc = "idle"
    /\ fromClient = <<>> /\ toTarget = <<>>
    /\ fromTarget = <<>> /\ toClient = <<>>
    /\ hpc = "done" =>
         /\ log = <<Rec("ERROR", "DialFailed")>>
         /\ clientClosed = 1
         /\ targetClosed = 0

\* the handler has returned after a failed dial
C9_Witness == hpc = "done" /\ ~targetDialed

\* C10: the ids of the handlers are strictly increasing in accept order, as
\* passed by the accept task and as stored by each handler, whenever the
\* handlers run.
C10_IdsIncrease ==
  \A i, j \in 1..Len(handlers) :
    i < j =>
      /\ handlers[i].arg < handlers[j].arg
      /\ (handlers[i].id # 0 /\ handlers[j].id # 0) =>
           handlers[i].id < handlers[j].id

\* three connections accepted after a failed Accept; the third handler has
\* returned while the first still runs
C10_Witness ==
  /\ Len(handlers) = 3
  /\ handlers[1].id # 0
  /\ handlers[3].pc = "done"
  /\ handlers[1].pc = "running"
  /\ acceptErrors > 0

RECURSIVE ExtensionOvershoot(_, _, _)
\* in the extensions laid end to end from offset pos, the body length of an
\* extension, or the name length of a host_name entry, runs past the end of
\* the buffer; the walk ends at the first name that lies inside the buffer
ExtensionOvershoot(d, pos, extensionsEnd) ==
  IF ~(pos + 4 <= extensionsEnd /\ pos + 4 <= Len(d)) THEN FALSE
  ELSE LET extType == U16(d, pos)
           extLen  == U16(d, pos + 2)
           body    == pos + 4
       IN IF body + extLen > Len(d) THEN TRUE
          ELSE IF extType = 0 /\ extLen < 5 THEN FALSE
          ELSE IF extType = 0 /\ d[body + 3] = 0
                 THEN body + 5 + U16(d, body + 3) > Len(d)
          ELSE ExtensionOvershoot(d, body + extLen, extensionsEnd)

\* buffer d passes the header checks and one of its length fields (session
\* id, cipher suites, compression methods, an extension body, a host name)
\* would carry the cursor past the end of the buffer
LengthOvershoot(d) ==
  /\ Len(d) > TLSFixedLen
  /\ d[1] = TLSHandshake
  /\ d[6] = ClientHelloType
  /\ LET p1 == TLSFixedLen + 1 + d[TLSFixedLen + 1]
     IN \/ p1 > Len(d)
        \/ /\ p1 + 2 <= Len(d)
           /\ LET p2 == p1 + 2 + U16(d, p1)
              IN \/ p2 > Len(d)
                 \/ /\ p2 < Len(d)
                    /\ LET p3 == p2 + 1 + d[p2 + 1]
                       IN \/ p3 > Len(d)
                          \/ /\ p3 + 2 <= Len(d)
                             /\ ExtensionOvershoot(d, p3 + 2,
                                                   p3 + 2 + U16(d, p3))

\* C12 as stated: extractSNI never reads outside the buffer, and it returns
\* absent (no name, no error) whenever a length field would carry the cursor
\* past the end of the buffer.
C12_NoPanicAbsentOnOvershoot ==
  extracted # <<>> =>
    /\ ~extracted[1].panic
    /\ LengthOvershoot(data) => extracted[1] = Absent

\* C11 as stated: shutdown neither closes the sockets of the connections
\* being handled nor terminates them otherwise: every handler started runs
\* until it returns by itself.
C11_InFlightRunOn ==
  \A i \in 1..Len(handlers) : handlers[i].pc # "killed"

\* the names logged so far: one INFO record per name drawn from a packet
NamesLogged == Cardinality({i \in 1..Len(log) : log[i].level = "INFO"})

\* C13 as stated: once a name has been accepted (the client is identified
\* and the task has not rejected), no later packet is inspected (no further
\* name is drawn from one) and the classifier does not reject any more.
C13_AdmittedIsFinal ==
  [][ (clientIdentified /\ rejectedAt = 0) =>
        (rejectedAt' = 0 /\ NamesLogged' = NamesLogged) ]_vars

\* C14 as stated: with sni_whitelist non-empty, a connection that has sent a
\* 0x16-led packet without an SNI and was never identified is rejected once
\* it has sent more than InspectWindow packets.
C14_NoSNIStillCutOff ==
  ( /\ sniWL # {}
    /\ Len(fromClient) > InspectWindow
    /\ \E p \in 1..Len(fromClient) :
         LedBy(fromClient[p], TLSHandshake) /\ ~SNITableOK[fromClient[p]]
    /\ ~clientIdentified )
  => rejectedAt # 0

\* C15 as stated: with a whitelist configured, a connection whose first
\* packet is led by neither 0x16 nor 0x03 and that was never identified is
\* rejected once it has sent more than InspectWindow packets.
C15_OpaqueStillCutOff ==
  ( /\ sniWL # {} \/ clientWL # {}
    /\ Len(fromClient) > InspectWindow
    /\ ~LedBy(fromClient[1], TLSHandshake)
    /\ ~LedBy(fromClient[1], TPKTVersion)
    /\ ~clientIdentified )
  => rejectedAt # 0

\* packet kind k is not 0x16-led and the heuristic finds no name in it
Plain(k) == ~LedBy(k, TLSHandshake) /\ ~ClientNameTableOK[k]

\* the packets read so far are a 0x03-led packet followed by packets that
\* are plain up to the one after the inspection window
PlainRDPSoFar ==
  /\ fromClient # <<>>
  /\ LedBy(fromClient[1], TPKTVersion)
  /\ \A p \in 2..Len(fromClient) :
       p <= InspectWindow + 1 => Plain(fromClient[p])

C17_ClosedOnce ==
  /\ clientClosed <= 1
  /\ targetClosed <= 1
  /\ (targetDialed /\ hpc \in {"select2", "report", "done"}) =>
       (clientClosed = 1 /\ targetClosed = 1)
  /\ hpc \in {"dial", "select1", "close"} =>
       (clientClosed = 0 /\ targetClosed = 0)
  /\ (~targetDialed /\ hpc = "done") => clientClosed = 1

\* the handler has returned, both tasks having ended on an error
C17_Witness ==
  /\ hpc = "done"
  /\ targetDialed
  /\ clientClosed = 1
  /\ targetClosed = 1
  /\ resultErr = "TargetWriteError"
  /\ s2cResultErr = "ClientWriteError"

\* C18: no socket of a dialed connection is closed before one of the tasks
\* has posted its outcome, and the handler is past its second select (and
\* returns) only when both tasks have posted.
C18_CloseAfterFirstReturnAfterBoth ==
  targetDialed =>
    /\ (clientClosed > 0 \/ targetClosed > 0) =>
         (c2sPc = "done" \/ s2cPc = "done")
    /\ hpc \in {"report", "done"} =>
         (c2sPc = "done" /\ s2cPc = "done")

\* the handler has returned; the client -> server task ended first on EOF
\* and the other task ended on the read that the close made fail
C18_Witness ==
  /\ hpc = "done"
  /\ targetDialed
  /\ resultErr = NilErr
  /\ firstErr = NilErr
  /\ s2cResultErr = "TargetReadError"
  /\ fromClient # <<>>

\* C19: an outcome channel never holds more than its capacity, so no post
\* blocks; and once a task has posted, both tasks end and the handler returns.
C19_BothJoin ==
  /\ [](Len(clientToServerDone) <= ChanCap /\ Len(serverToClientDone) <= ChanCap)
  /\ (c2sPc = "done" \/ s2cPc = "done")
       ~> (c2sPc = "done" /\ s2cPc = "done" /\ hpc = "done")

\* only the target peer closed: the server -> client task ended on EOF, the
\* client sent nothing, and the handler has returned
C19_Witness ==
  /\ hpc = "done"
  /\ s2cResultErr = NilErr
  /\ s2cPc = "done"
  /\ fromClient = <<>>
  /\ resultErr = "ClientReadError"
  /\ clientToServerDone = <<>>
  /\ serverToClientDone = <<>>

\* the outcomes that are I/O errors
IOErrors ==
  {"ClientReadError", "TargetWriteError", "TargetReadError", "ClientWriteError"}

ErrorsLogged == Cardinality({i \in 1..Len(log) : log[i].level = "ERROR"})

\* C20: a dialed connection logs no ERROR before its handler returns, and
\* when it has returned it has logged one ERROR if the first outcome the
\* handler received is an I/O error, and none otherwise (end of stream, the
\* rejection sentinel), whatever the second outcome is.
C20_OneErrorForFirst ==
  targetDialed =>
    /\ ErrorsLogged <= 1
    /\ hpc # "done" => ErrorsLogged = 0
    /\ hpc = "done" => (ErrorsLogged = 1 <=> firstErr \in IOErrors)

\* a rejection came first and an I/O error second: no ERROR was logged
C20_Witness ==
  /\ hpc = "done"
  /\ firstErr = ErrSNINotInWhitelist
  /\ s2cResultErr \in IOErrors
  /\ ErrorsLogged = 0

\* C21 as stated: once the stop signal has been given, no connection is
\* accepted: the counter is not incremented and no handler is started.
C21_NoAcceptAfterStop ==
  [][ stopCh # "open" =>
        (connID' = connID /\ Len(handlers') = Len(handlers)) ]_vars

\* the ERROR records of the accept task
AcceptFailures ==
  Cardinality({i \in 1..Len(serverLog) :
                 serverLog[i] = Rec("ERROR", "AcceptFailed")})

\* C22: a failed Accept met while the stop channel is open adds one ERROR
\* record, leaves the counter and the handlers as they are and leaves the
\* task at its Accept; a failed Accept met once the channel is closed adds
\* no record and ends the task; the task ends in no other way.
C22_AcceptErrorHandled ==
  [][ /\ (acceptErrors' # acceptErrors /\ stopCh = "open") =>
           /\ serverLog' = Append(serverLog, Rec("ERROR", "AcceptFailed"))
           /\ connID' = connID
           /\ handlers' = handlers
           /\ acceptPc' = "accept"
      /\ (acceptErrors' # acceptErrors /\ stopCh # "open") =>
           /\ serverLog' = serverLog
           /\ connID' = connID
           /\ handlers' = handlers
           /\ acceptPc' = "exited"
      /\ (acceptPc = "accept" /\ acceptPc' = "exited") =>
           (stopCh # "open" /\ serverLog' = serverLog)
      /\ AcceptFailures' # AcceptFailures =>
           (stopCh = "open" /\ acceptErrors' # acceptErrors) ]_vars

\* an Accept failed before the stop signal and was logged, connections were
\* accepted, and the task ended on the Accept that failed on the closed
\* listener after the signal, with no second record
C22_Witness ==
  /\ acceptErrors = MaxAcceptErrors
  /\ AcceptFailures = MaxAcceptErrors
  /\ acceptPc = "exited"
  /\ listener = "closed"
  /\ handlers # <<>>

\* the place of a status in the life of a service
StatusRank(st) ==
  CASE st = "StartPending" -> 1
    [] st = "Running" -> 2
    [] st = "StopPending" -> 3
    [] st = "Stopped" -> 4

\* the statuses sent so far are the head of StartPending, Running (sent
\* again on each Interrogate), StopPending, Stopped
StatusesInOrder ==
  /\ statuses # <<>> => statuses[1] = "StartPending"
  /\ \A i \in 1..(Len(statuses) - 1) :
       \/ StatusRank(statuses[i + 1]) = StatusRank(statuses[i]) + 1
       \/ statuses[i + 1] = "Running" /\ statuses[i] = "Running"

\* C25 as stated: the statuses are sent in that order, the stop channel is
\* closed once, with StopPending, and Stopped is sent only after the accept
\* task has ended.
C25_StoppedAfterAcceptLoop ==
  /\ StatusesInOrder
  /\ stopCh # "closedTwice"
  /\ (stopCh = "closed") <=> (\E i \in 1..Len(statuses) : statuses[i] = "StopPending")
  /\ (\E i \in 1..Len(statuses) : statuses[i] = "Stopped") => acceptPc = "exited"

\* buffer d passes the three header checks of extractSNI
HeaderChecksPass(d) ==
  /\ Len(d) >= TLSFixedLen
  /\ d[1] = TLSHandshake
  /\ d[6] = ClientHelloType

\* where the extension block of buffer d starts and ends, by its session id,
\* cipher suite, compression and extension length fields: <<start, end>>, or
\* <<>> when a field lies or leads outside the buffer
ExtensionBlock(d) ==
  IF TLSFixedLen >= Len(d) THEN <<>>
  ELSE LET p1 == TLSFixedLen + 1 + d[TLSFixedLen + 1]
       IN IF p1 + 2 > Len(d) THEN <<>>
          ELSE LET p2 == p1 + 2 + U16(d, p1)
               IN IF p2 >= Len(d) THEN <<>>
                  ELSE LET p3 == p2 + 1 + d[p2 + 1]
                       IN IF p3 + 2 > Len(d) THEN <<>>
                          ELSE <<p3 + 2, p3 + 2 + U16(d, p3)>>

RECURSIVE AlignedWalk(_, _, _)
\* the extensions of d laid end to end from offset pos, each one starting
\* where the declared body of the one before ends: the host name of the first
\* server_name extension whose name type is 0 and whose name lies inside the
\* buffer; none when an extension body runs past the buffer
AlignedWalk(d, pos, extensionsEnd) ==
  IF ~(pos + 4 <= extensionsEnd /\ pos + 4 <= Len(d)) THEN Absent
  ELSE LET extType == U16(d, pos)
           extLen  == U16(d, pos + 2)
           body    == pos + 4
       IN IF body + extLen > Len(d) THEN Absent
          ELSE IF extType = 0 /\ extLen < 5 THEN Absent
          ELSE IF /\ extType = 0
                  /\ d[body + 3] = 0
                  /\ body + 5 + U16(d, body + 3) <= Len(d)
                 THEN Found(SubSeq(d, body + 6, body + 5 + U16(d, body + 3)))
          ELSE AlignedWalk(d, body + extLen, extensionsEnd)

\* C23 as stated: for a buffer that passes the header checks, extractSNI
\* returns what the walk that advances by 4 + length per extension finds:
\* the host name of the first server_name extension with name type 0 and a
\* name inside the buffer, otherwise absent.
C23_WalkIsAligned ==
  (extracted # <<>> /\ HeaderChecksPass(data)) =>
    extracted[1] = IF ExtensionBlock(data) = <<>> THEN Absent
                   ELSE AlignedWalk(data, ExtensionBlock(data)[1],
                                    ExtensionBlock(data)[2])

\* the code unit at offset j of d lies inside the buffer and is UTF-16-LE
\* printable ASCII
ConformingUnit(d, j) ==
  /\ j + 2 <= Len(d)
  /\ d[j + 1] \in 32..126
  /\ d[j + 2] = 0

\* the number of conforming code units of d in a row from offset i on, at
\* most RDPRunBytes \div 2 of them
RunLength(d, i) ==
  CHOOSE n \in 0..(RDPRunBytes \div 2) :
    /\ \A k \in 0..(n - 1) : ConformingUnit(d, i + 2 * k)
    /\ n = RDPRunBytes \div 2 \/ ~ConformingUnit(d, i + 2 * n)

\* the offsets of d in the scanned range at which a run of more than
\* RDPMinName characters starts
RunStarts(d) ==
  {i \in RDPScanFrom..(Len(d) - RDPMinLen - 1) :
     i < RDPScanLimit /\ RunLength(d, i) > RDPMinName}

\* the characters of the first such run; none when there is no such run
FirstRun(d) ==
  IF RunStarts(d) = {} THEN <<>>
  ELSE LET i == CHOOSE m \in RunStarts(d) : \A o \in RunStarts(d) : m <= o
       IN [k \in 1..RunLength(d, i) |-> d[i + 2 * (k - 1) + 1]]

\* C24 as stated: for every buffer that is not 0x16-led the heuristic returns
\* the characters of the first run of more than RDPMinName conforming code
\* units that starts in the scanned range, and no name only when there is no
\* such run.
C24_FirstRunOfAnyPacket ==
  (extracted # <<>> /\ data[1] # TLSHandshake) =>
    extracted[1].name = FirstRun(data)

\* C24, amended: it does so for the buffers that begin with the TPKT bytes
\* 03 00; for every other buffer it returns no name, whatever runs it holds.
C24_FirstRunOfTPKT ==
  extracted # <<>> =>
    /\ ~extracted[1].panic
    /\ extracted[1].name =
         IF Len(data) >= 2 /\ data[1] = TPKTVersion /\ data[2] = 0
           THEN FirstRun(data) ELSE <<>>
    /\ extracted[1].err <=> extracted[1].name = <<>>

\* a TPKT buffer in which a run of three characters comes first and the name
\* returned is the run after it
C24_Witness ==
  /\ extracted # <<>>
  /\ data[1] = TPKTVersion
  /\ RunLength(data, RDPScanFrom) = 3
  /\ extracted[1] = Found(NameWork)

\* a 0x16-led packet is among the packets read so far
SeenTLS == \E p \in 1..Len(fromClient) : LedBy(fromClient[p], TLSHandshake)

\* the records that the plain-RDP inspection wrote: the names the heuristic
\* drew, its refusals and the cutoffs
PlainInspections ==
  Cardinality({i \in 1..Len(log) :
     \/ log[i].level = "INFO" /\ log[i].msg[1] = "RDPClient"
     \/ /\ log[i].level = "WARN"
        /\ log[i].msg \in {"ClientNotInWhitelist", "NoTLSUpgrade",
                           "ClientNotIdentified"}})

====
